---- MODULE Spec2Model ----
(***************************************************************************)
(* Genetic-algorithm TSP solver: tsp.py (operators) and                    *)
(* TSP_Genetic_Algorithm.py (driver loop of main).                         *)
(*                                                                         *)
(* Python lists are objects: a population is a list of references to       *)
(* chromosome lists, so the model keeps a heap (reference -> list) and     *)
(* populations are sequences of references.  Random draws are inputs.      *)
(* Lengths are whole numbers: the city layouts used have whole-number      *)
(* pairwise distances, so float sums and round(_, 3) are exact on them.    *)
(***************************************************************************)
EXTENDS Integers, Sequences, FiniteSets, TLC

(***************************************************************************)
(* Bounds of the model                                                     *)
(***************************************************************************)
\* all pairs of parents are enumerated for chromosomes of 2..MaxPairLen cities
MaxPairLen == 4
\* parent1 = identity, parent2 any permutation, up to MaxPermLen cities
MaxPermLen == 5
\* longest chromosome of the operator specification (subset_cross needs >= 15)
MaxLongLen == 20
\* cities of the evolution specification
NumCities == 15
\* chromosomes of the initial population (pop_size, 50 in main)
pop_size == 4
\* iterations of the loop of next_gen (population_size, 25 in next_gen)
population_size == 2
\* generations the evolution specification produces
MaxGen == 2
\* values of each random draw the evolution specification enumerates
MaxDraw == 2
\* last generation whose best fitness the driver specification lets differ
\* from the one before
MaxChangeGen == 3

(***************************************************************************)
(* Python helpers                                                          *)
(***************************************************************************)
Abs(v) == IF v < 0 THEN -v ELSE v

Max(S) == CHOOSE v \in S : \A w \in S : w <= v

\* s[i] for a Python index i, negative indices counting from the end
PyAt(s, i) == IF i < 0 THEN s[Len(s) + i + 1] ELSE s[i + 1]

\* s[a:b] for 0 <= a, 0 <= b (the slice is clamped to the list)
PySlice(s, a, b) ==
    LET hi == IF b < Len(s) THEN b ELSE Len(s)
    IN  IF a >= hi THEN << >> ELSE [k \in 1..(hi - a) |-> s[a + k]]

\* list.insert(i, v) for i >= 0 (an index past the end appends)
PyInsert(s, i, v) ==
    LET at == IF i < Len(s) THEN i ELSE Len(s)
    IN  [k \in 1..(Len(s) + 1) |->
            IF k <= at THEN s[k] ELSE IF k = at + 1 THEN v ELSE s[k - 1]]

\* x in s
PyIn(x, s) == \E k \in 1..Len(s) : s[k] = x

\* the values random.randrange(a, b, 1) can return; it raises ValueError when empty
randrange(a, b) == a..(b - 1)

\* the first cap values of randrange(a, b): the draws a specification enumerates
Draw(a, b, cap) == {v \in randrange(a, b) : v < a + cap}

(***************************************************************************)
(* Cities, distance, fitness                                               *)
(***************************************************************************)
City(name, x, y) == [name |-> name, x |-> x, y |-> y]

\* the value of an unfilled offspring position
None == [name |-> 0, x |-> 0, y |-> 0]

\* math.hypot, on the differences the layouts produce (whole-number results)
hypot(dx, dy) ==
    IF dy = 0 THEN Abs(dx)
    ELSE IF dx = 0 THEN Abs(dy)
    ELSE CHOOSE r \in 0..(Abs(dx) + Abs(dy)) : r * r = dx * dx + dy * dy

\* the cache CACHE["D"] memoises this value under the key <lower>-<upper> of
\* the two names; names are unique in the layouts, so the cached value is the
\* value computed here
get_distance(c1, c2) ==
    IF c1 = c2 THEN 0 ELSE hypot(c1.x - c2.x, c1.y - c2.y)

RECURSIVE FitnessFrom(_, _)
FitnessFrom(cities, i) ==
    IF i >= Len(cities) THEN 0
    ELSE get_distance(PyAt(cities, i - 1), PyAt(cities, i)) + FitnessFrom(cities, i + 1)

fitness_function_nowrap(cities) == FitnessFrom(cities, 1)

\* for i in range(len(cities)): total += get_distance(cities[i-1], cities[i])
fitness_function(cities) == FitnessFrom(cities, 0)

(***************************************************************************)
(* Operators on chromosomes.  An operator that draws random numbers is     *)
(* given as the set of its outcomes, one per draw it can make; an outcome  *)
(* has a status: "ok", an exception name, or "hang" (a loop that no draw   *)
(* can leave).                                                             *)
(***************************************************************************)
\* the first Python index of x in s, -1 when x is not in s
IndexOf(s, x) ==
    IF PyIn(x, s)
    THEN (CHOOSE k \in 1..Len(s) : s[k] = x /\ \A j \in 1..(k - 1) : s[j] # x) - 1
    ELSE -1

Swapped(s, i, j) == [s EXCEPT ![i + 1] = s[j + 1], ![j + 1] = s[i + 1]]

\* mutate_swap with its three draws made: the chromosome pop[index_mut] is
\* swapped in place and that same list is returned
mutate_swap(h, pop, index_mut, index1, index2) ==
    LET mutated == PyAt(pop, index_mut)
    IN  [status |-> "ok",
         heap   |-> [h EXCEPT ![mutated] = Swapped(h[mutated], index1, index2)],
         ret    |-> mutated]

mutate_swap_outcomes(h, pop, cap) ==
    LET p_size == Len(pop)
        failed(st) == [status |-> st, heap |-> h, ret |-> 0]
    IN  IF randrange(0, p_size - 1) = {} THEN {failed("ValueError")}
        ELSE UNION {
            LET m_size == Len(h[PyAt(pop, index_mut)])
            IN  IF randrange(1, m_size - 1) = {} THEN {failed("ValueError")}
                ELSE UNION {
                    IF randrange(1, m_size - 1) \ {index1} = {}
                    THEN {failed("hang")}
                    ELSE {mutate_swap(h, pop, index_mut, index1, index2) :
                            index2 \in Draw(1, m_size - 1, cap) \ {index1}}
                    : index1 \in Draw(1, m_size - 1, cap)}
            : index_mut \in Draw(0, p_size - 1, cap)}

\* cycle_cross, flag == 0, lines 166-172: off2[x] from off1[x]
CycleOff2(parent1, parent2, off1, off2, x) ==
    LET a == IndexOf(parent1, PyAt(off1, x))
    IN  IF a < 0 THEN off2
        ELSE LET b == IndexOf(parent1, PyAt(parent2, a))
             IN  IF b < 0 THEN off2 ELSE [off2 EXCEPT ![x + 1] = PyAt(parent2, b)]

CycleOff1_parent1(parent1, parent2, st, x) ==
    LET matches == {c \in 0..(Len(parent1) - 1) : PyAt(parent1, c) = PyAt(st.off2, x)}
    IN  IF 0 \in matches THEN [st EXCEPT !.flag = 1]
        ELSE IF matches = {} THEN st
        ELSE IF x + 1 >= Len(st.off1) THEN [st EXCEPT !.status = "IndexError"]
        ELSE [st EXCEPT !.off1[x + 2] = PyAt(parent1, Max(matches))]

\* cycle_cross, flag == 0, lines 174-181: close the cycle or write off1[x+1]
CycleOff1(parent1, parent2, st, x) ==
    LET matches == {c \in 0..(Len(parent1) - 1) : PyAt(parent1, c) = PyAt(st.off2, x)}
    IN  IF 0 \in matches THEN [st EXCEPT !.flag = 1]
        ELSE IF matches = {} THEN st
        ELSE IF x + 1 >= Len(st.off1) THEN [st EXCEPT !.status = "IndexError"]
        ELSE [st EXCEPT !.off1[x + 2] = PyAt(parent2, Max(matches))]

\* cycle_cross, flag == 1, lines 184-189: for d, city in enumerate(parent):
\* if not city in off: off[x] = city
RECURSIVE FillMissing(_, _, _, _)
FillMissing(off, x, parent, d) ==
    IF d >= Len(parent) THEN off
    ELSE IF PyIn(PyAt(parent, d), off) THEN FillMissing(off, x, parent, d + 1)
    ELSE FillMissing([off EXCEPT ![x + 1] = PyAt(parent, d)], x, parent, d + 1)

RECURSIVE CycleLoop(_, _, _, _)
CycleLoop(parent1, parent2, st, x) ==
    IF x >= Len(parent1) \/ st.status # "ok" THEN st
    ELSE IF st.flag = 0
    THEN CycleLoop(parent1, parent2,
            CycleOff1(parent1, parent2,
                [st EXCEPT !.off2 = CycleOff2(parent1, parent2, st.off1, st.off2, x)], x),
            x + 1)
    ELSE CycleLoop(parent1, parent2,
            [st EXCEPT !.off1 = FillMissing(st.off1, x, parent2, 0),
                       !.off2 = FillMissing(st.off2, x, parent1, 0)],
            x + 1)

\* the two parents are non-empty lists of the same length
cycle_cross(parent1, parent2) ==
    LET st == CycleLoop(parent1, parent2,
                [status |-> "ok", flag |-> 0,
                 off1 |-> [[k \in 1..Len(parent1) |-> None] EXCEPT ![1] = parent2[1]],
                 off2 |-> [k \in 1..Len(parent2) |-> None]], 0)
    IN  [status |-> st.status, offspring |-> <<st.off1, st.off2>>]

\* for x in range(random_subset-1, -1, -1): off.insert(random_start_index, sub[x])
RECURSIVE InsertBack(_, _, _, _)
InsertBack(off, start, sub, x) ==
    IF x < 0 THEN off
    ELSE InsertBack(PyInsert(off, start, PyAt(sub, x)), start, sub, x - 1)

Without(s, sub) == SelectSeq(s, LAMBDA x : ~PyIn(x, sub))

\* subset_cross with its two draws made
subset_cross(parent1, parent2, random_subset, random_start_index) ==
    LET p1_subset == PySlice(parent1, random_start_index, random_start_index + random_subset)
        p2_subset == PySlice(parent2, random_start_index, random_start_index + random_subset)
        off1 == InsertBack(Without(parent2, p1_subset), random_start_index,
                           p1_subset, random_subset - 1)
        off2 == InsertBack(Without(parent1, p2_subset), random_start_index,
                           p2_subset, random_subset - 1)
    IN  [status |-> "ok", offspring |-> <<off1, off2>>]

subset_cross_outcomes(parent1, parent2, cap) ==
    LET p1_size == Len(parent1)
        subset  == p1_size \div 5
        failed  == [status |-> "ValueError", offspring |-> << >>]
    IN  IF randrange(2, subset) = {} THEN {failed}
        ELSE UNION {
            IF randrange(0, p1_size - random_subset) = {} THEN {failed}
            ELSE {subset_cross(parent1, parent2, random_subset, random_start_index) :
                    random_start_index \in Draw(0, p1_size - random_subset, cap)}
            : random_subset \in Draw(2, subset, cap)}

\* crossover lines 226-228, chromosome by chromosome: a closed chromosome
\* loses its last element, in place (chromosomes are non-empty)
RECURSIVE StripClosed(_, _, _)
StripClosed(h, pop, k) ==
    IF k >= Len(pop) THEN h
    ELSE LET r == PyAt(pop, k)
             p == h[r]
         IN  IF PyAt(p, 0) = PyAt(p, Len(p) - 1)
             THEN StripClosed([h EXCEPT ![r] = PySlice(p, 0, Len(p) - 1)], pop, k + 1)
             ELSE StripClosed(h, pop, k + 1)

\* for t in tournament: if fitness_function(t) < high [and t != parent1]:
\*     high = fitness_function(t); parent = t
\* highC is high in hundredths; excl is the list t is compared with ([] for
\* the first tournament, which has no such test); the result is a reference,
\* 0 while the parent is still its initial value
RECURSIVE Tournament(_, _, _, _, _, _)
Tournament(h, tournament, k, highC, parent, excl) ==
    IF k >= Len(tournament) THEN parent
    ELSE LET t == PyAt(tournament, k)
             f == fitness_function(h[t])
         IN  IF f * 100 < highC /\ h[t] # excl
             THEN Tournament(h, tournament, k + 1, f * 100, t, excl)
             ELSE Tournament(h, tournament, k + 1, highC, parent, excl)

\* the crossover operators on the two selected parents: random_cross < 4 is
\* subset_cross, otherwise cycle_cross
CrossOutcomes(p1, p2, cap) ==
    subset_cross_outcomes(p1, p2, cap) \cup {cycle_cross(p1, p2)}

\* crossover(pop): the heap after it, the references of the two offspring
\* (new lists) and the parents selected
crossover_outcomes(h, pop, cap) ==
    LET h1     == StripClosed(h, pop, 0)
        failed(st) == [status |-> st, heap |-> h1, offspring |-> << >>,
                       parent1 |-> 0, parent2 |-> 0]
    IN  IF Len(pop) < 2 THEN {failed("IndexError")}
        ELSE
        LET len1   == Len(h1[PyAt(pop, 1)])
            subset == len1 \div 5
            window(s) == PySlice(pop, s, s + subset)
            won(s) == Tournament(h1, window(s), 0, 99999999, 0, << >>)
        IN  IF randrange(0, len1 - subset - 1) = {} THEN {failed("ValueError")}
            ELSE IF \A s \in randrange(0, len1 - subset - 1) : won(s) = 0
            THEN {failed("hang")}
            ELSE UNION { UNION {
                LET parent1 == won(s1)
                    parent2 == Tournament(h1, window(s2), 0, 99999999, parent1, h1[parent1])
                IN  {[status    |-> c.status,
                      heap      |-> IF c.status = "ok" THEN h1 \o c.offspring ELSE h1,
                      offspring |-> IF c.status = "ok"
                                    THEN <<Len(h1) + 1, Len(h1) + 2>> ELSE << >>,
                      parent1   |-> parent1,
                      parent2   |-> parent2] :
                        c \in CrossOutcomes(h1[parent1], h1[parent2], cap)}
                : s2 \in Draw(0, len1 - subset - 1, cap)}
                : s1 \in {s \in Draw(0, len1 - subset - 1, cap) : won(s) # 0}}

\* the else branch of next_gen: two calls of mutate_swap(pop), each result
\* appended to the new generation
mutate_twice_outcomes(h, pop, cap) ==
    UNION {
        IF m1.status # "ok" THEN {[status |-> m1.status, heap |-> m1.heap, added |-> << >>]}
        ELSE {[status |-> m2.status, heap |-> m2.heap,
               added  |-> IF m2.status = "ok" THEN <<m1.ret, m2.ret>> ELSE <<m1.ret>>] :
                m2 \in mutate_swap_outcomes(m1.heap, pop, cap)}
        : m1 \in mutate_swap_outcomes(h, pop, cap)}

\* find_best_path: best_fitT is best_fit in tenths; the result is a
\* reference, 0 for the empty list best_path starts as
RECURSIVE BestFrom(_, _, _, _, _)
BestFrom(h, pop, k, best_fitT, best_path) ==
    IF k >= Len(pop) THEN best_path
    ELSE LET path_distance == fitness_function(h[PyAt(pop, k)])
         IN  IF path_distance * 10 < best_fitT
             THEN BestFrom(h, pop, k + 1, path_distance * 10, PyAt(pop, k))
             ELSE BestFrom(h, pop, k + 1, best_fitT, best_path)

find_best_path(h, pop) == BestFrom(h, pop, 0, 999999, 0)

\* main lines 104-105: best_path.append(best_path[0]) unless already closed
close_path(path) ==
    IF PyAt(path, 0) # PyAt(path, Len(path) - 1) THEN Append(path, PyAt(path, 0)) ELSE path

(***************************************************************************)
(* Inputs: city layouts and permutations                                   *)
(***************************************************************************)
\* n cities on a line, city k at (k * scale, 0)
Line(n, scale) == [k \in 1..n |-> City(k, k * scale, 0)]

\* four cities on the corners of a 3 x 4 rectangle (diagonal 5)
Rect == <<City(1, 0, 0), City(2, 3, 0), City(3, 3, 4), City(4, 0, 4)>>

Perms(n) == {p \in [1..n -> 1..n] : \A a, b \in 1..n : p[a] = p[b] => a = b}

Chromosome(cs, p) == [k \in 1..Len(p) |-> cs[p[k]]]

RECURSIVE Gcd(_, _)
Gcd(a, b) == IF b = 0 THEN a ELSE Gcd(b, a % b)

\* the order 1, 1+m, 1+2m, ... (mod n): a permutation when m and n are coprime
Stride(n, m) == [k \in 1..n |-> (((k - 1) * m) % n) + 1]

Strides(n) == {Stride(n, m) : m \in {m \in 1..(n - 1) : Gcd(n, m) = 1}}

Rotations(p) == {[k \in 1..Len(p) |-> p[((k - 1 + r) % Len(p)) + 1]] : r \in 0..(Len(p) - 1)}

\* the j-th smallest multiplier coprime to n
RECURSIVE NthCoprime(_, _, _)
NthCoprime(n, j, m) ==
    IF Gcd(n, m) = 1 THEN (IF j = 1 THEN m ELSE NthCoprime(n, j - 1, m + 1))
    ELSE NthCoprime(n, j, m + 1)

IsPermutation(ch, cs) ==
    /\ Len(ch) = Len(cs)
    /\ \A k \in 1..Len(cs) : Cardinality({j \in 1..Len(ch) : ch[j] = cs[k]}) = 1

(***************************************************************************)
(* State                                                                   *)
(***************************************************************************)
VARIABLES
    cities,        \* TSP.data["NODE_COORD_SECTION"]
    heap,          \* the chromosome lists, by reference
    generation,    \* main: generation (the pop argument of next_gen), references
    newgen,        \* next_gen: the generation being assembled, references
    i,             \* next_gen: iterations of its loop made
    best_path,     \* main: best_path, a reference (0: the empty list)
    bpf,           \* main: bpf
    tmp_path_fit,  \* main: tmp_path_fit
    count,         \* main: count
    last_hit,      \* main: last_hit
    pc,            \* "next_gen", "done", or how the run ended
    parent1,       \* crossover: parent1 of the last call (0: still [])
    parent2,       \* crossover: parent2 of the last call
    lastOp,        \* the operation the last step performed
    best_seen,     \* history: least best fitness of the generations so far (0: none)
    frozen         \* history: every generation had the best fitness of the first

vars == <<cities, heap, generation, newgen, i, best_path, bpf, tmp_path_fit,
          count, last_hit, pc, parent1, parent2, lastOp, best_seen, frozen>>

driverVars == <<bpf, tmp_path_fit, count, last_hit, best_seen, frozen>>

\* main line 120: if (count - last_hit) > 1000: break
Threshold == 1000

StagnationBreak_ge(c, lh) == (c - lh) >= Threshold

StagnationBreak(c, lh) == (c - lh) > Threshold

\* main line 108: float(str(round(bpf, 3))) != float(str(round(tmp_path_fit, 3)))
\* (lengths are whole numbers, which rounding to 3 places leaves as they are)
HitTest(b, tmp) == b # tmp

\* main lines 106-121 once bpf is computed as b
Bookkeeping(b) ==
    /\ bpf' = b
    /\ last_hit' = IF HitTest(b, tmp_path_fit) THEN count ELSE last_hit
    /\ count' = count + 1
    /\ tmp_path_fit' = b
    /\ pc' = IF StagnationBreak(count + 1, last_hit') THEN "done" ELSE "next_gen"
    /\ best_seen' = IF best_seen = 0 \/ b < best_seen THEN b ELSE best_seen
    /\ frozen' = (frozen /\ (count = 1 \/ b = tmp_path_fit))

MainInit ==
    /\ best_path = 0
    /\ tmp_path_fit = 1
    /\ bpf = 0
    /\ count = 1
    /\ last_hit = 1
    /\ best_seen = 0
    /\ frozen = TRUE

(***************************************************************************)
(* The evolution: main's loop over next_gen                                *)
(***************************************************************************)
\* main lines 80-91: pop_size random permutations of the cities, here the
\* strides by the first pop_size multipliers coprime to the number of cities
InitialPopulation(cs) ==
    [j \in 1..pop_size |-> Chromosome(cs, Stride(Len(cs), NthCoprime(Len(cs), j, 1)))]

Init ==
    /\ cities \in {Line(NumCities, scale) : scale \in {1, 4000, 80000}}
    /\ heap = InitialPopulation(cities)
    /\ generation = [j \in 1..pop_size |-> j]
    /\ newgen = << >>
    /\ i = 0
    /\ pc = "next_gen"
    /\ parent1 = 0
    /\ parent2 = 0
    /\ lastOp = "init"
    /\ MainInit

\* next_gen, rand > 10: chromosome = crossover(pop), both offspring appended
NextGenCrossover ==
    /\ pc = "next_gen"
    /\ count <= MaxGen
    /\ i < population_size
    /\ \E o \in crossover_outcomes(heap, generation, MaxDraw) :
        /\ heap' = o.heap
        /\ newgen' = newgen \o o.offspring
        /\ parent1' = o.parent1
        /\ parent2' = o.parent2
        /\ pc' = IF o.status = "ok" THEN "next_gen" ELSE o.status
    /\ i' = i + 1
    /\ lastOp' = "crossover"
    /\ UNCHANGED <<cities, generation, best_path, driverVars>>

\* next_gen, rand <= 10: two mutate_swap(pop), each result appended
NextGenMutate ==
    /\ pc = "next_gen"
    /\ count <= MaxGen
    /\ i < population_size
    /\ \E o \in mutate_twice_outcomes(heap, generation, MaxDraw) :
        /\ heap' = o.heap
        /\ newgen' = newgen \o o.added
        /\ pc' = IF o.status = "ok" THEN "next_gen" ELSE o.status
    /\ i' = i + 1
    /\ lastOp' = "mutate"
    /\ UNCHANGED <<cities, generation, best_path, parent1, parent2, driverVars>>

\* next_gen returns; main lines 100-121
MainIteration ==
    /\ pc = "next_gen"
    /\ i = population_size
    /\ generation' = newgen
    /\ newgen' = << >>
    /\ i' = 0
    /\ best_path' = find_best_path(heap, newgen)
    /\ IF best_path' = 0
       THEN /\ pc' = "IndexError"
            /\ UNCHANGED <<heap, driverVars>>
       ELSE /\ heap' = [heap EXCEPT ![best_path'] = close_path(heap[best_path'])]
            /\ Bookkeeping(fitness_function(heap'[best_path']))
    /\ lastOp' = "main"
    /\ UNCHANGED <<cities, parent1, parent2>>

Next == NextGenCrossover \/ NextGenMutate \/ MainIteration

Spec == Init /\ [][Next]_vars

(***************************************************************************)
(* The operators one at a time, on drawn inputs: heap[1] and heap[2] are   *)
(* two chromosomes (the parents; the population <<1, 2>> for mutate_swap), *)
(* one operator is applied, and every draw it can make is enumerated.      *)
(***************************************************************************)
Identity(n) == [k \in 1..n |-> k]

\* <<cities, parent1, parent2>>, the parents as orders of the city numbers
OpsInputs ==
    UNION {
        {<<cs, p1, p2>> : cs \in {Line(n, 1)} \cup (IF n = 4 THEN {Rect} ELSE {}),
                          p1 \in Perms(n), p2 \in Perms(n)}
        : n \in 2..MaxPairLen}
    \cup UNION {
        {<<Line(n, 1), Identity(n), p2>> : p2 \in Perms(n)}
        : n \in (MaxPairLen + 1)..MaxPermLen}
    \cup UNION {
        {<<Line(n, 1), p1, p2>> :
            p1 \in {Identity(n), Stride(n, NthCoprime(n, 2, 1))},
            p2 \in Rotations(Identity(n)) \cup Strides(n)
                    \cup Rotations(Stride(n, NthCoprime(n, 3, 1)))}
        : n \in {15, MaxLongLen}}

OpsInit ==
    /\ \E in \in OpsInputs :
        /\ cities = in[1]
        /\ heap = <<Chromosome(in[1], in[2]), Chromosome(in[1], in[3])>>
    /\ generation = <<1, 2>>
    /\ newgen = << >>
    /\ i = 0
    /\ pc = "ops"
    /\ parent1 = 0
    /\ parent2 = 0
    /\ lastOp = "init"
    /\ MainInit

\* offspring = cycle_cross(parent1, parent2) / subset_cross(parent1, parent2)
OpCross(name, outcomes) ==
    /\ pc = "ops"
    /\ \E c \in outcomes :
        /\ heap' = IF c.status = "ok" THEN heap \o c.offspring ELSE heap
        /\ newgen' = IF c.status = "ok" THEN <<3, 4>> ELSE << >>
        /\ pc' = c.status
    /\ parent1' = 1
    /\ parent2' = 2
    /\ lastOp' = name
    /\ UNCHANGED <<cities, generation, i, best_path, driverVars>>

OpCycleCross == OpCross("cycle_cross", {cycle_cross(heap[1], heap[2])})

OpSubsetCross ==
    OpCross("subset_cross", subset_cross_outcomes(heap[1], heap[2], Len(heap[1])))

\* mut = mutate_swap(pop)
OpMutateSwap ==
    /\ pc = "ops"
    /\ \E m \in mutate_swap_outcomes(heap, generation, Len(heap[1])) :
        /\ heap' = m.heap
        /\ newgen' = IF m.status = "ok" THEN <<m.ret>> ELSE << >>
        /\ pc' = m.status
    /\ lastOp' = "mutate_swap"
    /\ UNCHANGED <<cities, generation, i, best_path, parent1, parent2, driverVars>>

\* main lines 103-106 with best_path the first chromosome
OpClosePath ==
    /\ pc = "ops"
    /\ best_path' = 1
    /\ heap' = [heap EXCEPT ![1] = close_path(heap[1])]
    /\ bpf' = fitness_function(heap'[1])
    /\ pc' = "ok"
    /\ lastOp' = "close_path"
    /\ UNCHANGED <<cities, generation, newgen, i, parent1, parent2,
                   tmp_path_fit, count, last_hit, best_seen, frozen>>

\* chromosome = crossover(pop)
OpCrossover ==
    /\ pc = "ops"
    /\ \E o \in crossover_outcomes(heap, generation, Len(heap[1])) :
        /\ heap' = o.heap
        /\ newgen' = o.offspring
        /\ parent1' = o.parent1
        /\ parent2' = o.parent2
        /\ pc' = o.status
    /\ lastOp' = "crossover"
    /\ UNCHANGED <<cities, generation, i, best_path, driverVars>>

OpsNext == OpCycleCross \/ OpSubsetCross \/ OpCrossover \/ OpMutateSwap \/ OpClosePath

SpecOps == OpsInit /\ [][OpsNext]_vars

(***************************************************************************)
(* The loop of main with the best fitness of each generation as an input:  *)
(* lines 100-106 yield bpf, lines 108-121 keep count and last_hit.         *)
(***************************************************************************)
DriverInit ==
    /\ cities = Line(NumCities, 1)
    /\ heap = << >>
    /\ generation = << >>
    /\ newgen = << >>
    /\ i = 0
    /\ pc = "next_gen"
    /\ parent1 = 0
    /\ parent2 = 0
    /\ lastOp = "init"
    /\ MainInit

DriverIteration ==
    /\ pc = "next_gen"
    /\ \E b \in 1..3 :
        /\ count <= MaxChangeGen \/ b = tmp_path_fit
        /\ Bookkeeping(b)
    /\ lastOp' = "main"
    /\ UNCHANGED <<cities, heap, generation, newgen, i, best_path, parent1, parent2>>

\* main lines 123-125 after the break
DriverReport ==
    /\ pc = "done"
    /\ count' = count + 1
    /\ pc' = "reported"
    /\ lastOp' = "report"
    /\ UNCHANGED <<cities, heap, generation, newgen, i, best_path, parent1, parent2,
                   bpf, tmp_path_fit, last_hit, best_seen, frozen>>

DriverNext == DriverIteration \/ DriverReport

SpecDriver == DriverInit /\ [][DriverNext]_vars

(***************************************************************************)
(* Properties                                                              *)
(***************************************************************************)
Refs(pop) == {pop[k] : k \in 1..Len(pop)}

\* the length of the closed tour through the cities of an open chromosome:
\* every edge between neighbours once, and the edge from the last to the first
RECURSIVE PathLength(_, _)
PathLength(ch, k) ==
    IF k >= Len(ch) THEN 0
    ELSE get_distance(ch[k], ch[k + 1]) + PathLength(ch, k + 1)

TourLength(ch) == PathLength(ch, 1) + get_distance(ch[Len(ch)], ch[1])

\* C1: every chromosome of every generation next_gen returns is a
\* permutation of the input cities (each city exactly once, length n).
C1_PermutationInvariant ==
    (pc = "next_gen" /\ i = population_size) =>
        \A k \in 1..Len(newgen) : IsPermutation(heap[newgen[k]], cities)

\* C2: for parents that are permutations of the same cities, cycle_cross
\* writes no index out of range and returns two permutations of those
\* cities, and every pair subset_cross returns is two such permutations.
C2_OffspringArePermutations ==
    (IsPermutation(heap[1], cities) /\ IsPermutation(heap[2], cities)) =>
        /\ lastOp = "cycle_cross" =>
                /\ pc = "ok"
                /\ IsPermutation(heap[3], cities) /\ IsPermutation(heap[4], cities)
        /\ (lastOp = "subset_cross" /\ pc = "ok") =>
                /\ IsPermutation(heap[3], cities) /\ IsPermutation(heap[4], cities)

\* subset_cross returned, for parents of the longest length, an offspring
\* that is neither parent
C2_Witness ==
    /\ lastOp = "subset_cross" /\ pc = "ok"
    /\ Len(heap[1]) = MaxLongLen
    /\ heap[3] # heap[1] /\ heap[3] # heap[2]

\* C3: after each generation the best path main holds is no longer than the
\* best chromosome of any generation so far.
C3_BestSoFar ==
    (lastOp = "main" /\ best_path # 0) =>
        fitness_function(heap[best_path]) <= best_seen

\* C4: find_best_path returns a non-empty member of the population with
\* minimal fitness, and the tournament of crossover ends with parent1 and
\* parent2 members of the population, whatever the fitness values are.
C4_SelectionDefined ==
    /\ lastOp = "main" =>
            /\ best_path \in Refs(generation)
            /\ heap[best_path] # << >>
            /\ \A r \in Refs(generation) :
                    fitness_function(heap[best_path]) <= fitness_function(heap[r])
    /\ lastOp = "crossover" =>
            /\ parent1 \in Refs(generation)
            /\ parent2 \in Refs(generation)

\* C5: while the loop runs no more than Threshold generations have passed
\* since last_hit was set; when it stops exactly Threshold generations have
\* run after the generation last_hit names; with the best fitness frozen
\* from the first generation on it stops after Threshold + 1 generations.
C5_StagnationCount ==
    /\ pc = "next_gen" => count - last_hit <= Threshold
    /\ pc = "done" => count - 1 = last_hit + Threshold
    /\ (pc = "done" /\ frozen) => count - 1 = Threshold + 1

\* the loop stopped after a run whose best fitness never changed
C5_Witness == pc = "done" /\ frozen /\ count > 2

\* C6: the two parents crossover hands to subset_cross or cycle_cross are
\* distinct chromosomes.
C6_DistinctParents ==
    (lastOp = "crossover" /\ parent1 # 0) => parent1 # parent2

\* C7: crossover, subset_cross and mutate_swap return normally for every
\* chromosome length n >= 2: no exception, no loop that cannot end.
C7_OperatorsReturn ==
    (lastOp \in {"crossover", "subset_cross", "mutate_swap"} /\ Len(cities) >= 2) =>
        pc = "ok"

\* C8: the fitness main computes for the closed best path equals the
\* fitness of the open chromosome and the length of its closed tour.
C8_ClosedFitness ==
    lastOp = "close_path" =>
        LET open == SubSeq(heap[1], 1, Len(heap[1]) - 1)
        IN  IsPermutation(open, cities) =>
                /\ bpf = fitness_function(open)
                /\ bpf = TourLength(open)

\* a permutation of the rectangle's corners was closed and measured
C8_Witness ==
    /\ lastOp = "close_path"
    /\ cities = Rect
    /\ Len(heap[1]) = Len(cities) + 1
    /\ heap[1][1] = heap[1][Len(heap[1])]
    /\ bpf = 16

\* C9: last_hit changes only in a generation whose best fitness is strictly
\* smaller than the best fitness of the generations before it.
C9_HitOnlyOnImprovement ==
    [][last_hit' # last_hit => (best_seen = 0 \/ bpf' < best_seen)]_vars

\* C10: the two mutate_swap calls of next_gen leave every chromosome of pop
\* as it was, and what they append to the new generation is no list of pop
\* and no list the new generation holds elsewhere.
C10_MutationCopies ==
    [][lastOp' = "mutate" =>
        /\ \A r \in Refs(generation) : heap'[r] = heap[r]
        /\ \A k \in (Len(newgen) + 1)..Len(newgen') :
                /\ newgen'[k] \notin Refs(generation)
                /\ \A j \in 1..Len(newgen') : j # k => newgen'[j] # newgen'[k]
    ]_vars

====
